---------------------------- MODULE Spec2Model ----------------------------
(* Sensor Data API server (src/server.py): two ingestion channels, the     *)
(* HTTP endpoint POST /data served on the event loop ("http") and the MQTT *)
(* on_message callback served on the paho network loop thread ("mqtt"),    *)
(* write through insert_sensor_data into one MySQL table; two read routes  *)
(* query it.                                                               *)
(*                                                                         *)
(* A str is a sequence of character codes, so that ORDER BY sensor_id is   *)
(* a computed lexicographic comparison.  A timestamp is a number of        *)
(* seconds.  The table is the set of committed rows; the AUTO_INCREMENT    *)
(* counter hands out an id at execute, the row becomes visible at commit.  *)
EXTENDS Integers, Sequences, FiniteSets, TLC

(* ------------------------------ bounds --------------------------------- *)
MaxId == 2          \* ids the AUTO_INCREMENT counter hands out in a run


(* --------------------------- program constants ------------------------- *)
DefaultLimit == 10
MinLimit == 1
MaxLimit == 100

Threads == {"http", "mqtt"}

\* sensor ids: "", "ab", "b" as character codes ("ab" < "b" although longer)
SensorIds == {<< >>, <<1, 2>>, <<2>>}
DeviceIds == {"D1"}
Times == {1, 2}
Temps == {20}

NoData == [sensor_id |-> << >>, device_id |-> "", timestamp |-> 0, temp_value |-> 0]

FieldNames == {"sensor_id", "device_id", "timestamp", "temp_value"}

\* An encoded reading as it arrives on either channel: whether the bytes
\* are JSON at all, which keys the object has, and whether the timestamp
\* and temperature values parse.
Payload(wf, has, s, d, tsok, ts, vok, v) ==
    [wellformed |-> wf, has |-> has, sensor_id |-> s, device_id |-> d,
     ts_iso |-> tsok, timestamp |-> ts, temp_num |-> vok, temp_value |-> v]

\* well-formed readings; the one with the empty sensor_id among them
ValidPayloads ==
    {Payload(TRUE, FieldNames, s, d, TRUE, ts, TRUE, v) :
        s \in SensorIds \ {<< >>}, d \in DeviceIds, ts \in Times, v \in Temps}
      \cup {Payload(TRUE, FieldNames, << >>, "D1", TRUE, 1, TRUE, 20)}

BadPayloads ==
    { Payload(FALSE, {}, <<2>>, "D1", FALSE, 1, FALSE, 20),                      \* not JSON
      Payload(TRUE, FieldNames \ {"temp_value"}, <<2>>, "D1", TRUE, 1, TRUE, 20), \* no temp_value
      Payload(TRUE, FieldNames \ {"timestamp"}, <<2>>, "D1", TRUE, 1, TRUE, 20),  \* no timestamp
      Payload(TRUE, FieldNames, <<2>>, "D1", FALSE, 1, TRUE, 20),                 \* timestamp "yesterday"
      Payload(TRUE, FieldNames, <<2>>, "D1", TRUE, 1, FALSE, 20) }                \* temp_value "warm"

Payloads == ValidPayloads \cup BadPayloads

(* ------------------------------ Record Model --------------------------- *)
\* pydantic validation of SensorData: every field is required (Field(...)),
\* timestamp must parse to a datetime and temp_value to a float.  There is
\* no length constraint on the str fields.
SensorDataErrors(p) ==
    (FieldNames \ p.has)
      \cup (IF "timestamp" \in p.has /\ ~p.ts_iso THEN {"timestamp"} ELSE {})
      \cup (IF "temp_value" \in p.has /\ ~p.temp_num THEN {"temp_value"} ELSE {})

SensorData(p) ==
    [sensor_id |-> p.sensor_id, device_id |-> p.device_id,
     timestamp |-> p.timestamp, temp_value |-> p.temp_value]

\* on_message, lines 172-178: the first exception raised while decoding,
\* parsing the timestamp and constructing SensorData; "none" if none.
OnMessageParse(p) ==
    IF ~p.wellformed THEN "JSONDecodeError"
    ELSE IF "timestamp" \notin p.has THEN "KeyError"
    ELSE IF ~p.ts_iso THEN "ValueError"
    ELSE IF SensorDataErrors(p) # {} THEN "ValidationError"
    ELSE "none"

\* the request body of POST /data as FastAPI validates it
SubmitParse(p) ==
    IF ~p.wellformed THEN "JSONDecodeError"
    ELSE IF SensorDataErrors(p) # {} THEN "ValidationError"
    ELSE "none"

(* ------------------------------ Storage Sink --------------------------- *)
Row(id, d) ==
    [id |-> id, sensor_id |-> d.sensor_id, device_id |-> d.device_id,
     timestamp |-> d.timestamp, temp_value |-> d.temp_value]

DataOf(r) ==
    [sensor_id |-> r.sensor_id, device_id |-> r.device_id,
     timestamp |-> r.timestamp, temp_value |-> r.temp_value]

\* a counter that is advanced once and then stays
AllocIdStuck(n) == IF n = 0 THEN 1 ELSE n

\* AUTO_INCREMENT: the id given to the next executed INSERT
AllocId(n) == n + 1

\* an insert that skips a reading the table already holds
InsertRowDedup(table, row) ==
    IF \E r \in table : DataOf(r) = DataOf(row) THEN table ELSE table \cup {row}

\* an insert that overwrites what another connection committed
InsertRowOverwrite(table, row) == {row}

\* INSERT INTO sensor_data ... followed by commit: one new row, always
InsertRow(table, row) == table \cup {row}

\* oldest first
RowBeforeAscending(a, b) ==
    \/ a.timestamp < b.timestamp
    \/ a.timestamp = b.timestamp /\ a.id > b.id

\* ORDER BY timestamp DESC, id DESC
RowBefore(a, b) ==
    \/ a.timestamp > b.timestamp
    \/ a.timestamp = b.timestamp /\ a.id > b.id

RECURSIVE OrderRows(_)
OrderRows(rows) ==
    IF rows = {} THEN << >>
    ELSE LET first == CHOOSE r \in rows : \A o \in rows \ {r} : RowBefore(r, o)
         IN  <<first>> \o OrderRows(rows \ {first})

Take(s, n) == SubSeq(s, 1, IF n < Len(s) THEN n ELSE Len(s))

\* the query without its LIMIT clause
SelectLatestNoLimit(table, sensor_id, limit) ==
    OrderRows({r \in table : r.sensor_id = sensor_id})

\* SELECT ... WHERE sensor_id = %s ORDER BY timestamp DESC, id DESC LIMIT %s
SelectLatest(table, sensor_id, limit) ==
    Take(OrderRows({r \in table : r.sensor_id = sensor_id}), limit)

RECURSIVE LexLess(_, _)
LexLess(a, b) ==
    IF a = << >> THEN b # << >>
    ELSE IF b = << >> THEN FALSE
    ELSE IF Head(a) < Head(b) THEN TRUE
    ELSE IF Head(a) > Head(b) THEN FALSE
    ELSE LexLess(Tail(a), Tail(b))

\* ORDER BY LENGTH(sensor_id), sensor_id
ShorterFirst(a, b) == Len(a) < Len(b) \/ (Len(a) = Len(b) /\ LexLess(a, b))

RECURSIVE OrderStrsByLength(_)
OrderStrsByLength(strs) ==
    IF strs = {} THEN << >>
    ELSE LET first == CHOOSE s \in strs : \A o \in strs \ {s} : ShorterFirst(s, o)
         IN  <<first>> \o OrderStrsByLength(strs \ {first})

RECURSIVE OrderStrs(_)
OrderStrs(strs) ==
    IF strs = {} THEN << >>
    ELSE LET first == CHOOSE s \in strs : \A o \in strs \ {s} : LexLess(s, o)
         IN  <<first>> \o OrderStrs(strs \ {first})

\* SELECT DISTINCT sensor_id FROM sensor_data ORDER BY sensor_id
SelectSensors(table) == OrderStrs({r.sensor_id : r \in table})


(* -------------------------------- state -------------------------------- *)
VARIABLES
    store,      \* committed rows of table sensor_data
    nextId,     \* last id the AUTO_INCREMENT counter handed out
    started,    \* startup_event has run
    listener,   \* MQTT client: "init", "connecting", "subscribed" (CONNACK 0
                \* received on this connection), "dead", "crashed"
    topics,     \* the topics subscribed to on this connection
    pc,         \* per thread: "idle", or "executed" (INSERT executed, not committed)
    cur,        \* per thread: the SensorData being inserted
    rid,        \* per thread: cursor.lastrowid of the executed INSERT (0: none)
    conn,       \* per thread: holds an open connection
    resp,       \* the HTTP response of the last request
    mlog,       \* the outcome of the last on_message
    assigned,   \* history: the ids handed out, in the order they were
    ncommit     \* history: the number of INSERTs committed

vars == <<store, nextId, started, listener, topics, pc, cur, rid, conn, resp, mlog,
          assigned, ncommit>>

\* rid is the id the request's INSERT was given (0: it executed none);
\* detail is the exception the response reports; asked is the limit
\* parameter of the request and limit the one get_latest_readings was
\* called with (0: it was not called); database is the health probe's
\* report and probe what happened to the probe's connection
NoResp ==
    [op |-> "none", code |-> 0, record_id |-> 0, rid |-> 0, data |-> NoData,
     detail |-> "", sensor_id |-> << >>, asked |-> 0, limit |-> 0,
     rows |-> << >>, sensors |-> << >>, database |-> "", probe |-> ""]

\* err: the exception on_message caught ("none": it printed the record;
\* "disconnected": on_disconnect printed its notice since);
\* after_drop: the message before this one was dropped
NoLog == [err |-> "init", record_id |-> 0, rid |-> 0, data |-> NoData, after_drop |-> FALSE]

Init ==
    /\ store = {}
    /\ nextId = 0
    /\ started = FALSE
    /\ listener = "init"
    /\ topics = {}
    /\ pc = [t \in Threads |-> "idle"]
    /\ cur = [t \in Threads |-> NoData]
    /\ rid = [t \in Threads |-> 0]
    /\ conn = [t \in Threads |-> FALSE]
    /\ resp = NoResp
    /\ mlog = NoLog
    /\ assigned = << >>
    /\ ncommit = 0

(* --------------------------- Process Supervisor ------------------------ *)
MQTT_TOPIC == "sensor/data"

\* the network loop thread is between two callbacks
LoopIdleAlways == TRUE

\* loop_start (line 218) runs one network loop thread, which calls
\* on_connect, on_message and on_disconnect one after the other
LoopIdle == pc["mqtt"] = "idle"

\* a network loop that also runs, and retries, after a failed first connect
AwaitingConnackOrDead == listener \in {"connecting", "dead"}

\* the network loop is running and waits for the broker's CONNACK; it is
\* started only after connect returned (lines 213-218)
AwaitingConnack == listener = "connecting"

\* a subscribe outside the `if rc == 0`
SubscribesAlways(rc) == TRUE

\* on_connect, lines 160-163
Subscribes(rc) == rc = 0

\* startup_event -> start_mqtt_client: connect raising is printed and
\* absorbed, loop_start is then skipped.
Startup(connected) ==
    /\ ~started
    /\ started' = TRUE
    /\ listener' = IF connected THEN "connecting" ELSE "dead"
    /\ UNCHANGED <<store, nextId, topics, pc, cur, rid, conn, resp, mlog, assigned, ncommit>>

\* on_connect runs on the network loop thread, between two messages
OnConnect(rc) ==
    /\ AwaitingConnack
    /\ LoopIdle
    /\ listener' = IF rc = 0 THEN "subscribed" ELSE "connecting"
    /\ topics' = IF Subscribes(rc) THEN topics \cup {MQTT_TOPIC} ELSE topics
    /\ UNCHANGED <<store, nextId, started, pc, cur, rid, conn, resp, mlog, assigned, ncommit>>

\* on_disconnect with rc # 0: the notice is printed; the session was a
\* clean one, so its subscriptions are gone; the network loop reconnects
OnDisconnect ==
    /\ listener = "subscribed"
    /\ LoopIdle
    /\ listener' = "connecting"
    /\ topics' = {}
    /\ mlog' = [NoLog EXCEPT !.err = "disconnected"]
    /\ UNCHANGED <<store, nextId, started, pc, cur, rid, conn, resp, assigned, ncommit>>

(* ------------------------- how a thread finishes ----------------------- *)
\* an on_message that catches the decode error only
HandlesDecodeOnly(exc) == exc = "JSONDecodeError"

\* except clauses of on_message (lines 194-197): JSONDecodeError, Exception
\* ConnectionFailed is HTTPException(500, "Database connection failed"),
\* DatabaseError is HTTPException(500, "Database error: ...")
Handles(exc) ==
    exc \in {"JSONDecodeError", "KeyError", "ValueError", "ValidationError",
             "ConnectionFailed", "DatabaseError", "PrintError"}

\* an endpoint that reports every failure as a server-side error
StatusOfAlways500(exc) == 500

\* the status FastAPI answers with when exc leaves the endpoint
StatusOf(exc) ==
    IF exc \in {"JSONDecodeError", "ValidationError"} THEN 422 ELSE 500

SubmitResp(code, id, d, r) ==
    [NoResp EXCEPT !.op = "submit", !.code = code, !.record_id = id, !.data = d, !.rid = r]

Dropped(log) == log.err \notin {"init", "pending", "none", "disconnected"}

\* the exits of a sink operation on which it has acquired a connection
Acquired(exc) == exc \in {"none", "PrintError", "DatabaseError"}

\* a sink operation whose except block does not close the connection
LeftOpenOnError(exc) == exc = "DatabaseError"

\* whether a sink operation leaves its connection open when it exits with
\* exc: connection.close() is line 91 (120, 147) on the way to the return
\* and line 98 (127, 154) in the except block
LeftOpen(exc) == FALSE

\* thread t leaves its handler with exception exc ("none": it returns);
\* r is the id its INSERT was given
Finish(t, exc, r) ==
    /\ pc' = [pc EXCEPT ![t] = "idle"]
    /\ cur' = [cur EXCEPT ![t] = NoData]
    /\ rid' = [rid EXCEPT ![t] = 0]
    /\ conn' = [conn EXCEPT ![t] = Acquired(exc) /\ LeftOpen(exc)]
    /\ IF t = "http"
       THEN /\ resp' = IF exc = "none" THEN SubmitResp(201, r, cur[t], r)
                       ELSE [SubmitResp(StatusOf(exc), 0, NoData, r) EXCEPT !.detail = exc]
            /\ UNCHANGED <<mlog, listener, topics>>
       ELSE /\ mlog' = [err |-> exc, record_id |-> IF exc = "none" THEN r ELSE 0,
                        rid |-> r, data |-> IF exc = "none" THEN cur[t] ELSE NoData,
                        after_drop |-> IF mlog.err = "pending" THEN mlog.after_drop
                                       ELSE Dropped(mlog)]
            /\ listener' = IF exc = "none" \/ Handles(exc) THEN listener ELSE "crashed"
            /\ UNCHANGED <<resp, topics>>

\* thread t has executed its INSERT and goes on to commit
Executed(t, d) ==
    /\ nextId' = AllocId(nextId)
    /\ assigned' = Append(assigned, AllocId(nextId))
    /\ rid' = [rid EXCEPT ![t] = AllocId(nextId)]
    /\ cur' = [cur EXCEPT ![t] = d]
    /\ pc' = [pc EXCEPT ![t] = "executed"]
    /\ conn' = [conn EXCEPT ![t] = TRUE]
    /\ IF t = "http"
       THEN resp' = NoResp /\ UNCHANGED <<mlog, listener, topics>>
       ELSE /\ mlog' = [err |-> "pending", record_id |-> 0, rid |-> 0, data |-> NoData,
                        after_drop |-> Dropped(mlog)]
            /\ UNCHANGED <<resp, listener, topics>>

(* ----------------------------- ingestion ------------------------------- *)
InsertOutcomes == {"ok", "no_connection", "execute_error"}
CommitOutcomes == {"ok", "commit_error", "cursor_close_error",
                   "connection_close_error", "print_error"}

\* insert_sensor_data, lines 75-86, for thread t and SensorData d:
\* get_db_connection returning None raises HTTPException(500); an Error in
\* cursor()/execute is turned into HTTPException(500) by lines 95-99 after
\* the connection is closed; otherwise the INSERT has been given its id.
InsertBegin(t, d, db) ==
    /\ nextId < MaxId
    /\ IF db = "ok" THEN Executed(t, d)
       ELSE /\ Finish(t, IF db = "no_connection" THEN "ConnectionFailed"
                         ELSE "DatabaseError", 0)
            /\ UNCHANGED <<nextId, assigned>>
    /\ UNCHANGED <<store, started, ncommit>>

\* POST /data, up to the execute of the INSERT
SubmitSensorData(p, db) ==
    /\ started
    /\ pc["http"] = "idle"
    /\ IF SubmitParse(p) = "none"
       THEN InsertBegin("http", SensorData(p), db)
       ELSE Finish("http", SubmitParse(p), 0) /\ UNCHANGED <<store, nextId, started, assigned, ncommit>>

\* on_message, lines 170-181, up to the execute of the INSERT
OnMessage(p, db) ==
    /\ MQTT_TOPIC \in topics
    /\ LoopIdle
    /\ IF OnMessageParse(p) = "none"
       THEN InsertBegin("mqtt", SensorData(p), db)
       ELSE Finish("mqtt", OnMessageParse(p), 0) /\ UNCHANGED <<store, nextId, started, assigned, ncommit>>

\* insert_sensor_data from line 87 on, and the caller's print block:
\* commit, lastrowid, cursor.close, connection.close, return; then the
\* prints of lines 232-241 (184-192).  An Error at or after commit is
\* handled by lines 95-99; closing the connection discards an uncommitted
\* INSERT.  An exception of print leaves submit_sensor_data unhandled and
\* is caught by line 196 in on_message.
InsertEnd(t, out) ==
    /\ pc[t] = "executed"
    /\ store' = IF out = "commit_error" THEN store
                ELSE InsertRow(store, Row(rid[t], cur[t]))
    /\ ncommit' = IF out = "commit_error" THEN ncommit ELSE ncommit + 1
    /\ Finish(t, IF out = "ok" THEN "none"
                 ELSE IF out = "print_error" THEN "PrintError"
                 ELSE "DatabaseError", rid[t])
    /\ UNCHANGED <<nextId, started, assigned>>

(* ---------------------------- Query Service ---------------------------- *)
QuerySensors == SensorIds \ {<< >>}
NoLimit == -1       \* the request carries no limit parameter
LimitInputs == {NoLimit, MinLimit - 1, MinLimit, MaxLimit, MaxLimit + 1}
DbOutcomes == {"ok", "no_connection", "error"}

\* a Query without ge and le
LimitOkAlways(limit) == TRUE

\* Query(default=10, ge=1, le=100)
LimitOk(limit) == limit = NoLimit \/ (limit >= MinLimit /\ limit <= MaxLimit)

\* the limit handed to get_latest_readings
LimitOf(limit) == IF limit = NoLimit THEN DefaultLimit ELSE limit

\* get_latest_readings: the rows on success
get_latest_readings(table, sensor_id, limit) == SelectLatest(table, sensor_id, limit)

\* get_all_sensors: the sensor ids on success
get_all_sensors(table) == SelectSensors(table)

\* an endpoint that passes the empty result on
NotFoundNever(readings) == FALSE

\* `if not readings`
NotFound(readings) == readings = << >>

ReadingsResp(code, s, limit, rows) ==
    [NoResp EXCEPT !.op = "readings", !.code = code, !.sensor_id = s,
                   !.limit = limit, !.rows = rows]

\* the exit of a read of the sink with outcome db
ReadExit(db) ==
    IF db = "ok" THEN "none"
    ELSE IF db = "no_connection" THEN "ConnectionFailed" ELSE "DatabaseError"

ReadConn(db) == [conn EXCEPT !["http"] = Acquired(ReadExit(db)) /\ LeftOpen(ReadExit(db))]

\* GET /sensors/{sensor_id}/readings
GetSensorReadings(s, limit, db) ==
    /\ started
    /\ pc["http"] = "idle"
    /\ resp' =
         [ IF ~LimitOk(limit) THEN [NoResp EXCEPT !.op = "readings", !.code = 422]
           ELSE IF db # "ok"
           THEN [NoResp EXCEPT !.op = "readings", !.code = 500,
                               !.detail = ReadExit(db), !.limit = LimitOf(limit)]
           ELSE LET readings == get_latest_readings(store, s, LimitOf(limit))
                IN  IF NotFound(readings)
                    THEN ReadingsResp(404, s, LimitOf(limit), << >>)
                    ELSE ReadingsResp(200, s, LimitOf(limit), readings)
         EXCEPT !.asked = limit ]
    /\ conn' = IF LimitOk(limit) THEN ReadConn(db) ELSE conn
    /\ UNCHANGED <<store, nextId, started, listener, topics, pc, cur, rid, mlog, assigned, ncommit>>

\* GET /sensors
ListSensors(db) ==
    /\ started
    /\ pc["http"] = "idle"
    /\ resp' =
         IF db # "ok"
         THEN [NoResp EXCEPT !.op = "sensors", !.code = 500, !.detail = ReadExit(db)]
         ELSE [NoResp EXCEPT !.op = "sensors", !.code = 200,
                             !.sensors = get_all_sensors(store)]
    /\ conn' = ReadConn(db)
    /\ UNCHANGED <<store, nextId, started, listener, topics, pc, cur, rid, mlog, assigned, ncommit>>

(* ----------------------------- health probe --------------------------- *)
\* what happens to the probe's connection: acquired and closed; refused
\* (get_db_connection returns None); an exception while acquiring; an
\* exception of close
ProbeOutcomes == {"acquired", "refused", "acquire_exception", "close_exception"}

\* a probe without the else branch of line 312
DbStatusNoElse(probe) ==
    IF probe \in {"acquire_exception", "close_exception"} THEN "error" ELSE "connected"

\* health_check, lines 307-315
DbStatus(probe) ==
    IF probe = "acquired" THEN "connected"
    ELSE IF probe = "refused" THEN "disconnected"
    ELSE "error"

\* GET /health
HealthCheck(probe) ==
    /\ started
    /\ pc["http"] = "idle"
    /\ resp' = [NoResp EXCEPT !.op = "health", !.code = 200,
                              !.database = DbStatus(probe), !.probe = probe]
    /\ UNCHANGED <<store, nextId, started, listener, topics, pc, cur, rid, conn, mlog,
                   assigned, ncommit>>

(* ------------------------------ the system ----------------------------- *)
\* A failure before the INSERT is executed leaves nothing of the reading
\* behind, and a failed read nothing of its parameters but the limit: one
\* request stands for all of them there.
AnyReading == Payload(TRUE, FieldNames, <<2>>, "D1", TRUE, 1, TRUE, 20)

InsertRequests ==
    {<<p, "ok">> : p \in Payloads}
      \cup {<<AnyReading, db>> : db \in InsertOutcomes \ {"ok"}}

ReadRequests ==
    {<<s, limit, "ok">> : s \in QuerySensors, limit \in LimitInputs}
      \cup {<<<<2>>, NoLimit, db>> : db \in DbOutcomes \ {"ok"}}

Next ==
    \/ \E connected \in BOOLEAN : Startup(connected)
    \/ \E rc \in {0, 5} : OnConnect(rc)
    \/ OnDisconnect
    \/ \E q \in InsertRequests : SubmitSensorData(q[1], q[2])
    \/ \E q \in InsertRequests : OnMessage(q[1], q[2])
    \/ \E t \in Threads, out \in CommitOutcomes : InsertEnd(t, out)
    \/ \E q \in ReadRequests : GetSensorReadings(q[1], q[2], q[3])
    \/ \E db \in DbOutcomes : ListSensors(db)
    \/ \E probe \in ProbeOutcomes : HealthCheck(probe)

Spec == Init /\ [][Next]_vars

TypeOK ==
    /\ nextId \in 0..MaxId
    /\ \A r \in store : r.id \in 1..nextId
    /\ listener \in {"init", "connecting", "subscribed", "dead", "crashed"}

(* ------------------------------- claims -------------------------------- *)
StoreIds == {r.id : r \in store}
Ids(seq) == {seq[i] : i \in 1..Len(seq)}

\* C1: whatever the interleaving of submit_sensor_data and on_message, the
\* ids the sink hands out are strictly increasing in the order they are
\* handed out, no two Stored Readings share an id, and every id a
\* successful insert returned (or is about to return) is one of them and
\* belongs to that insert alone.
C1_IdsUniqueIncreasing ==
    /\ \A i, j \in 1..Len(assigned) : i < j => assigned[i] < assigned[j]
    /\ \A r1, r2 \in store : r1.id = r2.id => r1 = r2
    /\ StoreIds \subseteq Ids(assigned)
    /\ \A t \in Threads : pc[t] = "executed" =>
          /\ rid[t] \in Ids(assigned)
          /\ rid[t] \notin StoreIds
          /\ \A u \in Threads \ {t} : pc[u] = "executed" => rid[u] # rid[t]
    /\ resp.code = 201 => resp.record_id \in Ids(assigned)
    /\ mlog.err = "none" => mlog.record_id \in Ids(assigned)
    /\ resp.code = 201 /\ mlog.err = "none" => resp.record_id # mlog.record_id

\* both channels have returned an id, the asynchronous one the smaller
C1_Witness ==
    /\ resp.op = "submit" /\ resp.code = 201
    /\ mlog.err = "none"
    /\ mlog.record_id < resp.record_id
    /\ {mlog.record_id, resp.record_id} \subseteq StoreIds

\* C2: a synchronous submit ends either in 201 with its record_id and one
\* Stored Reading holding the submitted fields under that id, or in an
\* error response with no Stored Reading from that request.
C2_SubmitAllOrNothing ==
    resp.op = "submit" =>
        \/ /\ resp.code = 201
           /\ Row(resp.record_id, resp.data) \in store
           /\ Cardinality({r \in store : r.id = resp.record_id}) = 1
        \/ /\ resp.code # 201
           /\ ~\E r \in store : r.id = resp.rid

\* C3: a Reading with the empty sensor_id is never stored.
C3_EmptySensorIdNeverStored ==
    /\ \A r \in store : r.sensor_id # << >>
    /\ \A t \in Threads : pc[t] = "executed" => cur[t].sensor_id # << >>

C5_NoDeduplication ==
    Cardinality(store) = ncommit

\* the listener alone (no HTTP request was ever made) stored one reading twice
C5_Witness ==
    /\ resp = NoResp /\ pc["http"] = "idle"
    /\ \E r1, r2 \in store : r1.id # r2.id /\ DataOf(r1) = DataOf(r2)

\* C6: with both threads inside insert_sensor_data, each successful insert
\* leaves its own row, under its own id and with its own fields, in the
\* store; an insert still in flight has taken nothing away from the rows
\* committed so far (every id committed is still there).
C6_ConcurrentInsertsBothStored ==
    /\ resp.code = 201 => Row(resp.record_id, resp.data) \in store
    /\ mlog.err = "none" => Row(mlog.record_id, mlog.data) \in store
    /\ resp.code = 201 /\ mlog.err = "none" => resp.record_id # mlog.record_id
    /\ resp.op = "submit" /\ resp.code = 500 /\ resp.rid # 0 /\ mlog.err = "none"
          => resp.rid # mlog.record_id
    /\ Cardinality(store) = ncommit

\* the listener's insert ran to its end while the HTTP thread, which got
\* the smaller id, was still between execute and commit; different sensors
C6_Witness ==
    /\ pc["http"] = "executed"
    /\ mlog.err = "none" /\ mlog.record_id > rid["http"]
    /\ mlog.data.sensor_id # cur["http"].sensor_id
    /\ Row(mlog.record_id, mlog.data) \in store

\* C7: a successful latest-readings response for sensor S and limit N,
\* N in 1..100, has at most N rows and every row's sensor_id is S.
C7_AtMostLimitRowsOfSensor ==
    resp.op = "readings" /\ resp.code = 200 =>
        /\ resp.limit \in MinLimit..MaxLimit
        /\ Len(resp.rows) <= resp.limit
        /\ \A i \in 1..Len(resp.rows) : resp.rows[i].sensor_id = resp.sensor_id

\* the LIMIT cut the result: the store holds more rows of S than were asked for
C7_Witness ==
    /\ resp.op = "readings" /\ resp.code = 200
    /\ Len(resp.rows) = resp.limit
    /\ Cardinality({r \in store : r.sensor_id = resp.sensor_id}) > resp.limit

\* a latest-readings response just given, for the store as it is
Answered(op) == resp' # resp /\ resp'.op = op /\ store' = store

\* C8: the rows of a latest-readings response are rows of the store, in
\* order of timestamp descending and, within one timestamp, id descending;
\* every row of S the response leaves out is older (in that order) than
\* every row it returns.
C8_LatestFirst ==
    [][Answered("readings") /\ resp'.code = 200 =>
          LET rows == resp'.rows
              newer(a, b) == \/ a.timestamp > b.timestamp
                             \/ a.timestamp = b.timestamp /\ a.id > b.id
          IN  /\ \A i \in 1..Len(rows) : rows[i] \in store
              /\ \A i, j \in 1..Len(rows) : i < j => newer(rows[i], rows[j])
              /\ \A r \in store :
                    r.sensor_id = resp'.sensor_id /\ r \notin {rows[i] : i \in 1..Len(rows)}
                       => \A i \in 1..Len(rows) : newer(rows[i], r)
      ]_vars

\* two rows of S, the later timestamp inserted first, returned newest first
C8_Witness ==
    /\ resp.op = "readings" /\ resp.code = 200
    /\ Len(resp.rows) = 2
    /\ resp.rows[1].timestamp > resp.rows[2].timestamp
    /\ resp.rows[1].id < resp.rows[2].id

\* C9: a list-sensors response holds exactly the sensor_ids that have a
\* Stored Reading, each once, in lexicographic order (so it is the same
\* for the same store), and the call leaves the store unchanged.
C9_SensorsSortedDistinct ==
    [][resp' # resp /\ resp'.op = "sensors" /\ resp'.code = 200 =>
          LET out == resp'.sensors
          IN  /\ store' = store
              /\ Ids(out) = {r.sensor_id : r \in store}
              /\ \A i, j \in 1..Len(out) : i < j => out[i] # out[j] /\ LexLess(out[i], out[j])
              /\ store = {} => out = << >>
      ]_vars

\* "ab" is listed before "b"
C9_Witness ==
    /\ resp.op = "sensors" /\ resp.code = 200
    /\ resp.sensors = << <<1, 2>>, <<2>> >>

\* C10: with storage reachable the latest-readings endpoint answers 404
\* exactly when the store has no row of the sensor, and a 200 answer is
\* never empty.
C10_NotFoundIffNoRows ==
    [][Answered("readings") /\ resp'.code \in {200, 404} =>
          /\ resp'.code = 404 <=> ~\E r \in store : r.sensor_id = resp'.sensor_id
          /\ resp'.code = 200 => resp'.rows # << >>
      ]_vars

\* a sensor without rows is reported not found while another sensor has rows
C10_Witness ==
    /\ resp.op = "readings" /\ resp.code = 404
    /\ store # {}
    /\ ~\E r \in store : r.sensor_id = resp.sensor_id

\* C11: the list-sensors operation never fails: whatever the storage sink
\* does (reachable, connection refused, query error) it answers with
\* success and a (possibly empty) sequence of sensor ids.
C11_ListSensorsNeverFails ==
    resp.op = "sensors" => resp.code = 200 /\ resp.detail = ""

\* C12: the health probe always answers (200), whatever happens to its
\* connection; it reports "connected" only when a connection was acquired
\* and released, "disconnected" when none was handed out and "error" when
\* acquire or close raised; it touches neither the store nor the
\* connections of the sink operations.
C12_HealthAlwaysAnswers ==
    [][resp' # resp /\ resp'.op = "health" =>
          /\ resp'.code = 200
          /\ resp'.probe \in ProbeOutcomes
          /\ resp'.database = "connected" <=> resp'.probe = "acquired"
          /\ resp'.probe = "refused" => resp'.database = "disconnected"
          /\ resp'.probe \in {"acquire_exception", "close_exception"}
                => resp'.database = "error"
          /\ store' = store /\ nextId' = nextId /\ conn' = conn
      ]_vars

\* close raised on the probe's connection, with readings in the store
C12_Witness ==
    /\ resp.op = "health" /\ resp.code = 200
    /\ resp.probe = "close_exception" /\ resp.database = "error"
    /\ store # {}

\* the three failure kinds of the submit endpoint
FailureKind(detail) ==
    IF detail \in {"JSONDecodeError", "ValidationError"} THEN "validation"
    ELSE IF detail = "ConnectionFailed" THEN "connection"
    ELSE IF detail = "DatabaseError" THEN "write"
    ELSE "none"

\* C13 as stated: two failure responses of the submit endpoint that are of
\* different kinds (validation, connection, write) carry different codes.
C13_DistinctCodesPerKind ==
    [][/\ resp.op = "submit" /\ resp'.op = "submit"
       /\ FailureKind(resp.detail) # "none" /\ FailureKind(resp'.detail) # "none"
       /\ FailureKind(resp.detail) # FailureKind(resp'.detail)
       => resp.code # resp'.code
      ]_vars

\* C13, amended: a validation failure of the submit endpoint is answered
\* 422, and both storage failures (no connection, rejected insert) are
\* answered 500, told apart by the detail only.
C13_ValidationApartFromStorage ==
    resp.op = "submit" =>
        /\ FailureKind(resp.detail) = "validation" => resp.code = 422
        /\ FailureKind(resp.detail) \in {"connection", "write"} => resp.code = 500
        /\ resp.code = 201 => resp.detail = ""

\* a refused connection answered 500
C13_Witness ==
    /\ resp.op = "submit" /\ resp.detail = "ConnectionFailed" /\ resp.code = 500

\* C14: when the insert of a submission succeeded and a print of the
\* logging step then raises, the row stays in the store and the caller
\* still gets the success response with its record_id.
C14_LoggingFailureHarmless ==
    resp.op = "submit" /\ resp.detail = "PrintError" =>
        /\ \E r \in store : r.id = resp.rid
        /\ resp.code = 201
        /\ resp.record_id = resp.rid

C16_SubscribedIffAcknowledged ==
    /\ MQTT_TOPIC \in topics <=> listener = "subscribed"
    /\ listener \in {"init", "connecting", "dead"} => pc["mqtt"] = "idle"
    /\ listener \in {"init", "dead"} => mlog = NoLog

\* Subscribed again after an unexpected disconnect
C16_Witness ==
    /\ listener = "subscribed" /\ MQTT_TOPIC \in topics
    /\ mlog.err = "disconnected"

\* C17: the listener is inside at most one on_message at a time: while a
\* message is between execute and commit no other message is taken up (the
\* id and the reading in hand stay), and the id a message is given is
\* larger than every id handed out before, those of all earlier messages
\* included, whatever the HTTP thread does in between.
C17_OneMessageAtATime ==
    [][/\ pc["mqtt"] = "executed" /\ pc'["mqtt"] = "executed"
            => rid'["mqtt"] = rid["mqtt"] /\ cur'["mqtt"] = cur["mqtt"]
       /\ pc["mqtt"] = "idle" /\ pc'["mqtt"] = "executed"
            => /\ \A i \in 1..Len(assigned) : assigned[i] < rid'["mqtt"]
               /\ mlog.err = "none" => mlog.record_id < rid'["mqtt"]
       /\ pc["mqtt"] = "executed" /\ pc'["mqtt"] = "idle" /\ mlog'.err = "none"
            => mlog'.record_id = rid["mqtt"]
      ]_vars

\* two messages stored one after the other, the later with the larger id
C17_Witness ==
    /\ resp = NoResp /\ pc["http"] = "idle"
    /\ StoreIds = {1, 2}
    /\ mlog.err = "none" /\ mlog.record_id = 2

\* C18: get_latest_readings is called with a limit in 1..100 only, 10 when
\* the request gives none and the request's own limit otherwise; a request
\* with a limit outside 1..100 is answered 422 without a call of the sink.
C18_LimitShapedBeforeSink ==
    resp.op = "readings" =>
        /\ resp.code \in {200, 404, 422, 500}
        /\ resp.code = 422 <=> resp.asked # NoLimit /\ resp.asked \notin MinLimit..MaxLimit
        /\ resp.code = 422 => resp.limit = 0 /\ resp.rows = << >>
        /\ resp.code # 422 =>
              /\ resp.limit \in MinLimit..MaxLimit
              /\ resp.asked = NoLimit => resp.limit = DefaultLimit
              /\ resp.asked # NoLimit => resp.limit = resp.asked

\* limit=101 refused although the store has rows to return
C18_Witness ==
    /\ resp.op = "readings" /\ resp.code = 422
    /\ resp.asked = MaxLimit + 1
    /\ store # {}

\* C19: every row of the store stays as it is; the store changes only by
\* a successful insert (an insert_sensor_data that returns its id), which
\* adds exactly one row; reads and the health probe leave it unchanged.
C19_AppendOnlyBySuccessfulInsert ==
    [][/\ store \subseteq store'
       /\ store' # store =>
             \E t \in Threads :
                /\ pc[t] = "executed" /\ pc'[t] = "idle"
                /\ Row(rid[t], cur[t]) \notin store
                /\ store' = store \cup {Row(rid[t], cur[t])}
                /\ t = "http" => resp'.detail \in {"", "PrintError"}
                /\ t = "mqtt" => mlog'.err \in {"none", "PrintError"}
       /\ resp' # resp /\ resp'.op \in {"readings", "sensors", "health"} => store' = store
      ]_vars

\* C20: once the initial connect has failed the listener stays dead: no
\* network loop runs, so it is never acknowledged, never subscribed and
\* ingests nothing, and startup is not attempted again; the HTTP side goes
\* on serving.
C20_DeadListenerStaysDead ==
    [][/\ started => started'
       /\ listener = "dead" =>
             /\ listener' = "dead"
             /\ topics' = {} /\ mlog' = NoLog
             /\ pc'["mqtt"] = "idle"
             /\ store' # store => pc["http"] = "executed"
      ]_vars

\* the initial connect failed and the endpoints stored and returned a reading
C20_Witness ==
    /\ listener = "dead" /\ started
    /\ resp.op = "readings" /\ resp.code = 200 /\ Len(resp.rows) = 1

=============================================================================
